---- MODULE Spec2Model ----
(***************************************************************************)
(* Adaptive viva session controller of Evater.                             *)
(*                                                                         *)
(*   app/services.py            viva_router: the next-step policy          *)
(*   app/routers/viva_router.py websocket_audio_endpoint: the controller   *)
(*                                                                         *)
(* Numbers.  The aggregated scores are Python floats produced by           *)
(*   ((cur * (turn_count - 1)) + incoming) / turn_count                    *)
(* They are modelled as exact rationals <<num, den>> in lowest terms.  In  *)
(* the controller turn_count never exceeds 2 when the update runs, so      *)
(* every aggregated value is an integer or a half-integer, where IEEE      *)
(* double arithmetic is exact; DyadicScores states this and is checked.    *)
(***************************************************************************)
EXTENDS Integers, Sequences, FiniteSets, TLC

(* ---------------------------------------------------------------------- *)
(* Bounds of the model                                                     *)
(* ---------------------------------------------------------------------- *)
MaxConcepts == 2
MaxTurnInput == 4

(* ---------------------------------------------------------------------- *)
(* Program constants                                                       *)
(* ---------------------------------------------------------------------- *)
HARD_CAP == 2

\* "correctness >= 8" in place of "correctness > 8"
MasteryThresholdInclusive == 8 - 1

MasteryThreshold == 8

\* "correctness <= 6" in place of "correctness < 6"
RemediationThresholdInclusive == 6 + 1

RemediationThreshold == 6
LoopBreak == 3
MinScore == 1
MaxScore == 10

(* ---------------------------------------------------------------------- *)
(* Exact rational arithmetic for the float scores                          *)
(* ---------------------------------------------------------------------- *)
RECURSIVE GCD(_, _)
GCD(a, b) == IF b = 0 THEN a ELSE GCD(b, a % b)

Abs(a) == IF a < 0 THEN 0 - a ELSE a

\* the pair p = <<n, d>> in lowest terms, d > 0
Lowest(p) ==
    LET g == GCD(Abs(p[1]), Abs(p[2]))
        s == IF p[2] < 0 THEN 0 - 1 ELSE 1
    IN  IF p[1] = 0 THEN <<0, 1>> ELSE <<(s * p[1]) \div g, (s * p[2]) \div g>>

\* n/d as a value: the operands are evaluated once, as Python evaluates the
\* operands of an arithmetic expression
Rat(n, d) == CHOOSE r \in {Lowest(p) : p \in {<<n, d>>}} : TRUE

RatInt(i) == <<i, 1>>
RatMulInt(r, i) == Rat(r[1] * i, r[2])
RatAddInt(r, i) == Rat(r[1] + i * r[2], r[2])
RatDivInt(r, i) == Rat(r[1], r[2] * i)
RatGtInt(r, i) == r[1] > i * r[2]
RatLtInt(r, i) == r[1] < i * r[2]
RatGeInt(r, i) == r[1] >= i * r[2]
RatLeInt(r, i) == r[1] <= i * r[2]

(* ---------------------------------------------------------------------- *)
(* Directives returned by the policy                                       *)
(* ---------------------------------------------------------------------- *)
MoveOn == "Move On"
DeeperDirective == "Ask one slightly deeper or application-oriented question on this concept."
FactualDirective == "Ask another question focused on the same factual point, but phrase it differently."
ProceduralDirective == "Generate a question that tests the same procedure in a slightly different, more step-by-step way."
ApplicationDirective == "Provide a simple real-world example that demonstrates the application of this concept, then ask a follow-up question about it."
ReasoningDirective == "Ask a 'why' or 'how' question about the reasoning behind the previous answer."
ConceptualDirective == "Ask a foundational question that breaks the concept into simpler parts. Include analogies if useful."
CommunicationDirective == "Ask the student to explain the same answer again in clearer or simpler terms."
MetacognitiveDirective == "Ask the student how they arrived at the answer or what strategy they used."
\* the wording of the older copy of the policy (no final full stop)
DefaultDirectiveOldWording == "Test this concept using a different question/approach"

DefaultDirective == "Test this concept using a different question/approach."

\* Python's None, as passed for error_type
NoneValue == "<None>"

(* ---------------------------------------------------------------------- *)
(* services.viva_router                                                    *)
(* ---------------------------------------------------------------------- *)
\* the repeated "if turn_count == 1: return <directive> else: return Move On"
\* no turn gate at all
OnFirstTurnUngated(turn_count, directive) == directive

\* the two arms of the turn gate swapped
OnFirstTurnSwapped(turn_count, directive) ==
    IF turn_count = 1 THEN MoveOn ELSE directive

\* the directive is given on the first two turns
OnFirstTwoTurns(turn_count, directive) ==
    IF turn_count <= 2 THEN directive ELSE MoveOn

OnFirstTurn(turn_count, directive) ==
    IF turn_count = 1 THEN directive ELSE MoveOn

\* mastery ends the session on any turn
MasteryStepAlwaysMovesOn(turn_count) == MoveOn

\* the mastery branch's own gate: "if turn_count >= 2: Move On else: deeper"
MasteryStep(turn_count) ==
    IF turn_count >= 2 THEN MoveOn ELSE DeeperDirective

\* the policy as it was before the hard cap and the turn gates were added
viva_router_uncapped(error, correctness, depth, clarity, turn_count) ==
    IF error = "no error" /\ RatGtInt(correctness, MasteryThreshold)
          /\ RatGtInt(depth, MasteryThreshold) /\ RatGtInt(clarity, MasteryThreshold)
          /\ turn_count >= 2
    THEN MoveOn
    ELSE IF error = "factual" /\ RatLtInt(correctness, RemediationThreshold)
    THEN FactualDirective
    ELSE IF error = "procedural" /\ RatLtInt(correctness, RemediationThreshold)
    THEN ProceduralDirective
    ELSE IF error = "application" /\ RatLtInt(depth, RemediationThreshold)
    THEN ApplicationDirective
    ELSE IF error = "reasoning"
    THEN ReasoningDirective
    ELSE IF error = "conceptual" /\ RatLtInt(depth, RemediationThreshold)
    THEN ConceptualDirective
    ELSE IF error = "communication/articulation" /\ RatLtInt(clarity, RemediationThreshold)
    THEN CommunicationDirective
    ELSE IF error = "metacognitive"
    THEN MetacognitiveDirective
    ELSE DefaultDirective

viva_router(error, correctness, depth, clarity, turn_count) ==
    IF turn_count > HARD_CAP
    THEN MoveOn
    ELSE IF error = "no error" /\ RatGtInt(correctness, MasteryThreshold)
          /\ RatGtInt(depth, MasteryThreshold) /\ RatGtInt(clarity, MasteryThreshold)
    THEN MasteryStep(turn_count)
    ELSE IF error = "factual" /\ RatLtInt(correctness, RemediationThreshold)
    THEN OnFirstTurn(turn_count, FactualDirective)
    ELSE IF error = "procedural" /\ RatLtInt(correctness, RemediationThreshold)
    THEN OnFirstTurn(turn_count, ProceduralDirective)
    ELSE IF error = "application" /\ RatLtInt(depth, RemediationThreshold)
    THEN OnFirstTurn(turn_count, ApplicationDirective)
    ELSE IF error = "reasoning"
    THEN OnFirstTurn(turn_count, ReasoningDirective)
    ELSE IF error = "conceptual" /\ RatLtInt(depth, RemediationThreshold)
    THEN OnFirstTurn(turn_count, ConceptualDirective)
    ELSE IF error = "communication/articulation" /\ RatLtInt(clarity, RemediationThreshold)
    THEN OnFirstTurn(turn_count, CommunicationDirective)
    ELSE IF error = "metacognitive"
    THEN OnFirstTurn(turn_count, MetacognitiveDirective)
    ELSE OnFirstTurn(turn_count, DefaultDirective)

(* ---------------------------------------------------------------------- *)
(* The running mean of the controller (one field)                          *)
(* ---------------------------------------------------------------------- *)
\* weights the old mean by the post-update count
RunningMeanOffByOne(current, turn_count, incoming) ==
    RatDivInt(RatAddInt(RatMulInt(current, turn_count), incoming), turn_count)

\* integer division instead of true division
RunningMeanFloor(current, turn_count, incoming) ==
    LET s == RatAddInt(RatMulInt(current, turn_count - 1), incoming)
    IN  RatInt((s[1] \div s[2]) \div turn_count)

\* accumulates and never divides
RunningMeanNoDivide(current, turn_count, incoming) ==
    RatAddInt(RatMulInt(current, turn_count - 1), incoming)

RunningMean(current, turn_count, incoming) ==
    RatDivInt(RatAddInt(RatMulInt(current, turn_count - 1), incoming), turn_count)

\* all three fields, lines 93-95
UpdateScore(score, turn_count, incoming) ==
    [correctness |-> RunningMean(score.correctness, turn_count, incoming.correctness),
     depth       |-> RunningMean(score.depth, turn_count, incoming.depth),
     clarity     |-> RunningMean(score.clarity, turn_count, incoming.clarity)]

(* ---------------------------------------------------------------------- *)
(* Inputs of the controller                                                *)
(* ---------------------------------------------------------------------- *)
ConceptNames == {"A", "B"}

RECURSIVE SeqsUpTo(_, _)
SeqsUpTo(S, n) ==
    IF n = 0 THEN {<<>>}
    ELSE LET shorter == SeqsUpTo(S, n - 1)
         IN  shorter \cup {Append(s, x) : s \in shorter, x \in S}

\* the concept lists of the stored chapters; names are only ever compared for
\* equality, so the first concept of a chapter is always the one called "A"
ConceptSeqs ==
    {cs \in SeqsUpTo(ConceptNames, MaxConcepts) : cs = <<>> \/ cs[1] = "A"}

\* a structured_summary value: a dict, possibly empty, possibly without "concepts"
Summaries ==
    {[other_keys |-> FALSE, has_concepts |-> FALSE, concepts |-> <<>>],
     [other_keys |-> TRUE,  has_concepts |-> FALSE, concepts |-> <<>>]}
    \cup {[other_keys |-> TRUE, has_concepts |-> TRUE, concepts |-> cs] : cs \in ConceptSeqs}

EmptyDict == [other_keys |-> FALSE, has_concepts |-> FALSE, concepts |-> <<>>]

\* response.data of the Chapter_contents query: no row, or one row
DBRows == {<<>>} \cup {<<s>> : s \in Summaries}

\* the declared literals with "application" and "reasoning" as two literals
EvaluatorErrorTypesSeparated ==
    {"conceptual", "procedural", "factual", "application", "reasoning",
     "communication/articulation", "metacognitive", "no error", NoneValue}

\* the evaluator's declared error_type literals (dspy_modules.py line 162) and None
EvaluatorErrorTypes ==
    {"conceptual", "procedural", "factual", "applicationreasoning",
     "communication/articulation", "metacognitive", "no error", NoneValue}

\* evaluator outputs the controller is driven with: scores in MinScore..MaxScore
EvalOutputs ==
    {[score |-> [correctness |-> 10, depth |-> 10, clarity |-> 10], error_type |-> "no error"],
     [score |-> [correctness |-> 9,  depth |-> 9,  clarity |-> 8],  error_type |-> "no error"],
     [score |-> [correctness |-> 1,  depth |-> 1,  clarity |-> 1],  error_type |-> "factual"],
     [score |-> [correctness |-> 6,  depth |-> 5,  clarity |-> 2],  error_type |-> NoneValue]}

Transcriptions == {"exit", "an answer"}

(* ---------------------------------------------------------------------- *)
(* State                                                                   *)
(* ---------------------------------------------------------------------- *)
VARIABLES
    pc,             \* where the handler is suspended
    iterator_list,  \* the Iterator objects of the run
    idx,            \* position of "for concept in iterator_list"
    question,       \* local: the generated question   (the three locals are dead
    answer,         \* local: the transcription         once their turn is over and
    evaluation,     \* local: the evaluator's output    are reset there)
    outbox,         \* the last message sent on the websocket (a string body is [text |-> ...])
    close_code,     \* 0 while open, else the close status
    trace,          \* history of the run (kept while the next selection is awaited)
    policy_in,      \* arguments of a stand-alone policy call
    policy_out,     \* its result
    peer            \* the handler of a second connection, suspended while this one runs

vars == <<pc, iterator_list, idx, question, answer, evaluation, outbox,
          close_code, trace, policy_in, policy_out, peer>>

ctl_vars == <<pc, iterator_list, idx, question, answer, evaluation, outbox,
              close_code, trace>>

NoLocal == "<unset>"

\* a local that holds a record once it is bound, before it is bound
NoRecord == [unset |-> TRUE]

\* no second connection
NoPeer == "<no connection>"
NoPolicyIn == [error |-> NoneValue, correctness |-> RatInt(0), depth |-> RatInt(0),
               clarity |-> RatInt(0), turn_count |-> 0]

\* the history of a run that has just started: nothing sent, nothing received
NoTrace ==
    [exited |-> {},             \* concepts whose session ended by the exit sentinel
     n_question |-> 0,          \* {"question": ...} messages sent
     n_answer |-> 0,            \* raw answers received
     n_interim |-> 0,           \* {"answer": ...} messages sent
     n_feedback |-> 0,          \* {"feedback": ...} messages sent
     viva_history |-> <<>>,     \* argument of the viva_feedback call
     text_frame |-> FALSE,      \* an answer arrived as a text frame
     raised |-> NoLocal,        \* what ended the handler: the exception or the call that raised
     close_reason |-> NoLocal]  \* reason passed to websocket.close

ZeroScore == [correctness |-> RatInt(0), depth |-> RatInt(0), clarity |-> RatInt(0)]

\* Iterator(concept=i, memory=[], score=EvaluationOutput(0,0,0), next_step="none", turn_count=1)
NewIterator(name) ==
    [concept_name |-> name, memory |-> <<>>, score |-> ZeroScore,
     next_step |-> "none", turn_count |-> 1]

\* services.get_chapter_structured_summary
get_chapter_structured_summary(rows) ==
    IF rows # <<>> THEN rows[1] ELSE EmptyDict

\* Python truthiness of the dict
Truthy(summary) == summary.other_keys \/ summary.has_concepts

\* chapter_summary_structured.get("concepts", [])
GetConcepts(summary) ==
    IF summary.has_concepts THEN summary.concepts ELSE <<>>

\* a mapping that keeps the first score stored under a name
ScoresDictFirstWins(list) ==
    [n \in {list[i].concept_name : i \in DOMAIN list} |->
        LET first == CHOOSE i \in DOMAIN list :
                        /\ list[i].concept_name = n
                        /\ \A j \in DOMAIN list : list[j].concept_name = n => i <= j
        IN  list[first].score]

\* scores_dict[i.concept.concept_name] = i.score.model_dump(), in list order
ScoresDict(list) ==
    [n \in {list[i].concept_name : i \in DOMAIN list} |->
        LET last == CHOOSE i \in DOMAIN list :
                        /\ list[i].concept_name = n
                        /\ \A j \in DOMAIN list : list[j].concept_name = n => j <= i
        IN  list[last].score]

\* temp_memory
TempMemory(list) == [i \in DOMAIN list |-> list[i].memory]

Init ==
    /\ pc = "await_chapter"
    /\ iterator_list = <<>>
    /\ idx = 0
    /\ question = NoRecord
    /\ answer = NoLocal
    /\ evaluation = NoRecord
    /\ outbox = [type |-> "status", body |-> [text |-> "connected"]]
    /\ close_code = 0
    /\ trace = NoTrace
    /\ policy_in = NoPolicyIn
    /\ policy_out = NoLocal
    /\ peer = NoPeer

(* ---------------------------------------------------------------------- *)
(* The controller, one action per stretch between two suspension points    *)
(* ---------------------------------------------------------------------- *)
\* the handler goes back to receive_json after the last concept and skips
\* the feedback
AfterConceptNoFeedback(list, i) ==
    IF i < Len(list) THEN [pc |-> "ask", idx |-> i + 1]
    ELSE [pc |-> "await_chapter", idx |-> i]

\* the for loop is left after its first concept
AfterConceptFirstOnly(list, i) == [pc |-> "feedback", idx |-> i]

\* where the for loop goes once the session of concept i has ended
AfterConcept(list, i) ==
    IF i < Len(list) THEN [pc |-> "ask", idx |-> i + 1]
    ELSE [pc |-> "feedback", idx |-> i]



\* "iterator_list = []" is outside the connection loop: the Iterator objects of
\* the previous run stay in the list
ReceiveChapterKeepsList(rows) ==
    /\ pc = "await_chapter"
    /\ close_code = 0
    /\ LET chapter_summary_structured == get_chapter_structured_summary(rows)
       IN  IF ~Truthy(chapter_summary_structured)
           THEN /\ outbox' = [type |-> "error", body |-> [text |-> "Chapter not found"]]
                /\ UNCHANGED <<pc, iterator_list, idx, trace>>
           ELSE LET concepts == GetConcepts(chapter_summary_structured)
                    list == iterator_list \o
                                [i \in DOMAIN concepts |-> NewIterator(concepts[i])]
                IN  /\ iterator_list' = list
                    /\ pc' = IF list = <<>> THEN "feedback" ELSE "ask"
                    /\ idx' = IF list = <<>> THEN 0 ELSE 1
                    /\ trace' = NoTrace
                    /\ UNCHANGED outbox
    /\ UNCHANGED <<question, answer, evaluation, close_code, policy_in, policy_out, peer>>

\* receive_json, the chapter lookup, and the construction of iterator_list
ReceiveChapter(rows) ==
    /\ pc = "await_chapter"
    /\ close_code = 0
    /\ LET chapter_summary_structured == get_chapter_structured_summary(rows)
       IN  IF ~Truthy(chapter_summary_structured)
           THEN /\ outbox' = [type |-> "error", body |-> [text |-> "Chapter not found"]]
                /\ UNCHANGED <<pc, iterator_list, idx, trace>>
           ELSE LET concepts == GetConcepts(chapter_summary_structured)
                    list == [i \in DOMAIN concepts |-> NewIterator(concepts[i])]
                IN  /\ iterator_list' = list
                    /\ pc' = IF list = <<>> THEN "feedback" ELSE "ask"
                    /\ idx' = IF list = <<>> THEN 0 ELSE 1
                    /\ trace' = NoTrace
                    /\ UNCHANGED outbox
    /\ UNCHANGED <<question, answer, evaluation, close_code, policy_in, policy_out, peer>>

\* generate_viva_question and send_json({"question": ...})
AskQuestion ==
    /\ pc = "ask"
    /\ LET concept == iterator_list[idx]
           q == [concept |-> concept.concept_name,
                 state_till_now |-> Len(concept.memory),
                 special_instructions |-> concept.next_step]
       IN  /\ question' = q
           /\ outbox' = [type |-> "question", body |-> q]
    /\ pc' = "await_answer"
    /\ trace' = [trace EXCEPT !.n_question = @ + 1]
    /\ UNCHANGED <<iterator_list, idx, answer, evaluation, close_code,
                   policy_in, policy_out, peer>>

\* receive_bytes with a binary frame
ReceiveAnswer ==
    /\ pc = "await_answer"
    /\ pc' = "transcribe"
    /\ trace' = [trace EXCEPT !.n_answer = @ + 1]
    /\ UNCHANGED <<iterator_list, idx, question, answer, evaluation, outbox,
                   close_code, policy_in, policy_out, peer>>

\* the outcomes of receive_bytes() when the client's frame is a text frame: the
\* ASGI message has no "bytes" entry and message["bytes"] raises KeyError, or
\* the entry is None and transcribe_audio is called with no audio and raises
TextFrameOutcomes == {"receive_bytes", "transcribe_audio"}

\* the reason of websocket.close(code=1011, reason="An error occurred")
ErrorReason == "An error occurred"

\* a text answer: receive_bytes or the transcription of its result raises, and
\* the except clause closes the connection
ReceiveTextAnswer(outcome) ==
    /\ pc = "await_answer"
    /\ close_code = 0
    /\ pc' = "closed"
    /\ close_code' = 1011
    /\ iterator_list' = <<>> /\ idx' = 0
    /\ question' = NoRecord /\ answer' = NoLocal /\ evaluation' = NoRecord
    /\ trace' = [trace EXCEPT !.n_answer = @ + 1, !.text_frame = TRUE,
                              !.raised = outcome, !.close_reason = ErrorReason]
    /\ UNCHANGED <<outbox, policy_in, policy_out, peer>>

\* "continue" in place of "break": the exit answer is skipped and the same
\* concept is asked again
TranscribeContinues(text) ==
    /\ pc = "transcribe"
    /\ IF text = "exit"
       THEN /\ pc' = "ask" /\ idx' = idx
            /\ question' = NoRecord /\ answer' = NoLocal
            /\ trace' = [trace EXCEPT !.exited = @ \cup {idx}]
       ELSE /\ pc' = "evaluate" /\ idx' = idx
            /\ answer' = text /\ question' = question
            /\ trace' = trace
    /\ UNCHANGED <<iterator_list, evaluation, outbox, close_code,
                   policy_in, policy_out, peer>>

\* the transcription is started but not awaited: the loop goes on to the next
\* question while the answer is still being transcribed
TranscribeNotAwaited(text) ==
    /\ pc = "transcribe"
    /\ pc' = "ask"
    /\ UNCHANGED <<iterator_list, idx, question, answer, evaluation, outbox,
                   close_code, trace, policy_in, policy_out, peer>>

\* the exit answer ends the whole run: the handler goes back to receive_json
TranscribeExitEndsRun(text) ==
    /\ pc = "transcribe"
    /\ IF text = "exit"
       THEN /\ pc' = "await_chapter" /\ idx' = idx
            /\ question' = NoRecord /\ answer' = NoLocal
            /\ trace' = [trace EXCEPT !.exited = @ \cup {idx}]
       ELSE /\ pc' = "evaluate" /\ idx' = idx
            /\ answer' = text /\ question' = question
            /\ trace' = trace
    /\ UNCHANGED <<iterator_list, evaluation, outbox, close_code,
                   policy_in, policy_out, peer>>

\* the exit turn is counted like an evaluated one
TranscribeExitCountsTurn(text) ==
    /\ pc = "transcribe"
    /\ IF text = "exit"
       THEN LET nxt == AfterConcept(iterator_list, idx)
            IN  /\ pc' = nxt.pc /\ idx' = nxt.idx
                /\ question' = NoRecord /\ answer' = NoLocal
                /\ trace' = [trace EXCEPT !.exited = @ \cup {idx}]
                /\ iterator_list' = [iterator_list EXCEPT ![idx].turn_count = @ + 1]
       ELSE /\ pc' = "evaluate" /\ idx' = idx
            /\ answer' = text /\ question' = question
            /\ trace' = trace
            /\ iterator_list' = iterator_list
    /\ UNCHANGED <<evaluation, outbox, close_code, policy_in, policy_out, peer>>

\* run_in_executor(transcribe_audio) and the exit check
Transcribe(text) ==
    /\ pc = "transcribe"
    /\ IF text = "exit"
       THEN LET nxt == AfterConcept(iterator_list, idx)
            IN  /\ pc' = nxt.pc /\ idx' = nxt.idx
                /\ question' = NoRecord /\ answer' = NoLocal
                /\ trace' = [trace EXCEPT !.exited = @ \cup {idx}]
       ELSE /\ pc' = "evaluate" /\ idx' = idx
            /\ answer' = text /\ question' = question
            /\ trace' = trace
    /\ UNCHANGED <<iterator_list, evaluation, outbox, close_code,
                   policy_in, policy_out, peer>>

\* memory.insert(0, ...) in place of memory.append(...)
EvaluatePrepends(ev) ==
    /\ pc = "evaluate"
    /\ evaluation' = ev
    /\ LET concept == iterator_list[idx]
           rec == [question |-> question, answer |-> answer,
                   score |-> ev.score, error_type |-> ev.error_type]
       IN  iterator_list' = [iterator_list EXCEPT ![idx] =
               [concept EXCEPT !.score = UpdateScore(concept.score, concept.turn_count, ev.score),
                               !.memory = <<rec>> \o concept.memory]]
    /\ pc' = "interim"
    /\ UNCHANGED <<idx, question, answer, outbox, close_code, trace, policy_in, policy_out, peer>>

\* evaluate_viva_answer, the running mean and the memory append
Evaluate(ev) ==
    /\ pc = "evaluate"
    /\ evaluation' = ev
    /\ LET concept == iterator_list[idx]
           rec == [question |-> question, answer |-> answer,
                   score |-> ev.score, error_type |-> ev.error_type]
       IN  iterator_list' = [iterator_list EXCEPT ![idx] =
               [concept EXCEPT !.score = UpdateScore(concept.score, concept.turn_count, ev.score),
                               !.memory = Append(concept.memory, rec)]]
    /\ pc' = "interim"
    /\ UNCHANGED <<idx, question, answer, outbox, close_code, trace, policy_in, policy_out, peer>>

\* the turn without its send_json({"answer": ...})
DecideWithoutInterim ==
    /\ pc = "interim"
    /\ LET concept == iterator_list[idx]
           next_step == viva_router(evaluation.error_type, concept.score.correctness,
                                    concept.score.depth, concept.score.clarity,
                                    concept.turn_count)
           turn_count == concept.turn_count + 1
           nxt == AfterConcept(iterator_list, idx)
       IN  /\ iterator_list' = [iterator_list EXCEPT ![idx] =
                   [concept EXCEPT !.next_step = next_step, !.turn_count = turn_count]]
           /\ IF turn_count > LoopBreak \/ next_step = MoveOn
              THEN pc' = nxt.pc /\ idx' = nxt.idx
              ELSE pc' = "ask" /\ idx' = idx
    /\ question' = NoRecord /\ answer' = NoLocal /\ evaluation' = NoRecord
    /\ UNCHANGED <<outbox, trace, close_code, policy_in, policy_out, peer>>

\* "while True" in place of "while concept.next_step != 'Move On'": only the
\* break on turn_count ends the session
DecideBreakOnly ==
    /\ pc = "interim"
    /\ outbox' = [type |-> "answer", body |-> [text |-> "reasoning"]]
    /\ trace' = [trace EXCEPT !.n_interim = @ + 1]
    /\ LET concept == iterator_list[idx]
           next_step == viva_router(evaluation.error_type, concept.score.correctness,
                                    concept.score.depth, concept.score.clarity,
                                    concept.turn_count)
           turn_count == concept.turn_count + 1
           nxt == AfterConcept(iterator_list, idx)
       IN  /\ iterator_list' = [iterator_list EXCEPT ![idx] =
                   [concept EXCEPT !.next_step = next_step, !.turn_count = turn_count]]
           /\ IF turn_count > LoopBreak
              THEN pc' = nxt.pc /\ idx' = nxt.idx
              ELSE pc' = "ask" /\ idx' = idx
    /\ question' = NoRecord /\ answer' = NoLocal /\ evaluation' = NoRecord
    /\ UNCHANGED <<close_code, policy_in, policy_out, peer>>

\* turn_count is incremented before the policy is consulted
DecideIncrementFirst ==
    /\ pc = "interim"
    /\ outbox' = [type |-> "answer", body |-> [text |-> "reasoning"]]
    /\ trace' = [trace EXCEPT !.n_interim = @ + 1]
    /\ LET concept == iterator_list[idx]
           turn_count == concept.turn_count + 1
           next_step == viva_router(evaluation.error_type, concept.score.correctness,
                                    concept.score.depth, concept.score.clarity,
                                    turn_count)
           nxt == AfterConcept(iterator_list, idx)
       IN  /\ iterator_list' = [iterator_list EXCEPT ![idx] =
                   [concept EXCEPT !.next_step = next_step, !.turn_count = turn_count]]
           /\ IF turn_count > LoopBreak \/ next_step = MoveOn
              THEN pc' = nxt.pc /\ idx' = nxt.idx
              ELSE pc' = "ask" /\ idx' = idx
    /\ question' = NoRecord /\ answer' = NoLocal /\ evaluation' = NoRecord
    /\ UNCHANGED <<close_code, policy_in, policy_out, peer>>

\* send_json({"answer": ...}), the policy call, the increment and the loop tests
Decide ==
    /\ pc = "interim"
    /\ outbox' = [type |-> "answer", body |-> [text |-> "reasoning"]]
    /\ trace' = [trace EXCEPT !.n_interim = @ + 1]
    /\ LET concept == iterator_list[idx]
           next_step == viva_router(evaluation.error_type, concept.score.correctness,
                                    concept.score.depth, concept.score.clarity,
                                    concept.turn_count)
           turn_count == concept.turn_count + 1
           nxt == AfterConcept(iterator_list, idx)
       IN  /\ iterator_list' = [iterator_list EXCEPT ![idx] =
                   [concept EXCEPT !.next_step = next_step, !.turn_count = turn_count]]
           /\ IF turn_count > LoopBreak \/ next_step = MoveOn
              THEN pc' = nxt.pc /\ idx' = nxt.idx
              ELSE pc' = "ask" /\ idx' = idx
    /\ question' = NoRecord /\ answer' = NoLocal /\ evaluation' = NoRecord
    /\ UNCHANGED <<close_code, policy_in, policy_out, peer>>

\* temp_memory, scores_dict, viva_feedback and send_json({"feedback": ...})
SendFeedback ==
    /\ pc = "feedback"
    /\ outbox' = [type |-> "feedback",
                  body |-> [scores |-> ScoresDict(iterator_list)]]
    /\ pc' = "await_chapter"
    /\ trace' = [trace EXCEPT !.n_feedback = @ + 1,
                              !.viva_history = TempMemory(iterator_list)]
    /\ UNCHANGED <<iterator_list, idx, question, answer, evaluation, close_code,
                   policy_in, policy_out, peer>>

\* the history is that of a run: closing between two runs leaves none
TraceAtClose == IF pc = "await_chapter" THEN NoTrace ELSE trace

\* WebSocketDisconnect handled like any other exception
DisconnectEscalates ==
    /\ pc \in {"await_chapter", "ask", "await_answer", "interim", "feedback"}
    /\ close_code = 0
    /\ pc' = "closed"
    /\ close_code' = 1011
    /\ iterator_list' = <<>> /\ idx' = 0
    /\ question' = NoRecord /\ answer' = NoLocal /\ evaluation' = NoRecord
    /\ trace' = [TraceAtClose EXCEPT !.raised = "WebSocketDisconnect",
                                     !.close_reason = "An error occurred"]
    /\ UNCHANGED <<outbox, policy_in, policy_out, peer>>

\* WebSocketDisconnect raised by a receive or a send: the handler returns and
\* its locals are gone
Disconnect ==
    /\ pc \in {"await_chapter", "ask", "await_answer", "interim", "feedback"}
    /\ close_code = 0
    /\ pc' = "closed"
    /\ iterator_list' = <<>> /\ idx' = 0
    /\ question' = NoRecord /\ answer' = NoLocal /\ evaluation' = NoRecord
    /\ trace' = [TraceAtClose EXCEPT !.raised = "WebSocketDisconnect"]
    /\ UNCHANGED <<outbox, close_code, policy_in, policy_out, peer>>

\* the capability call the handler is in at each position
RaisingCall(at) ==
    CASE at = "await_chapter" -> "get_chapter_structured_summary"
      [] at = "ask"           -> "generate_viva_question"
      [] at = "transcribe"    -> "transcribe_audio"
      [] at = "evaluate"      -> "evaluate_viva_answer"
      [] at = "feedback"      -> "viva_feedback"

\* a selection without "chapter", "grade" or "subject": the subscript raises
\* KeyError before the lookup, and the except clause closes the connection
MalformedSelection ==
    /\ pc = "await_chapter"
    /\ close_code = 0
    /\ pc' = "closed"
    /\ close_code' = 1011
    /\ iterator_list' = <<>> /\ idx' = 0
    /\ trace' = [NoTrace EXCEPT !.raised = "KeyError", !.close_reason = ErrorReason]
    /\ UNCHANGED <<question, answer, evaluation, outbox, policy_in, policy_out, peer>>

\* the call is tried again after it raised and the connection stays open
FailAndRetry ==
    /\ pc \in {"await_chapter", "ask", "transcribe", "evaluate", "feedback"}
    /\ close_code = 0
    /\ trace.raised = NoLocal
    /\ trace' = [trace EXCEPT !.raised = RaisingCall(pc)]
    /\ UNCHANGED <<pc, iterator_list, idx, question, answer, evaluation, outbox,
                   close_code, policy_in, policy_out, peer>>

\* any other exception (a capability call raising): close(code=1011, ...), return
Fail ==
    /\ pc \in {"await_chapter", "ask", "transcribe", "evaluate", "feedback"}
    /\ close_code = 0
    /\ pc' = "closed"
    /\ close_code' = 1011
    /\ iterator_list' = <<>> /\ idx' = 0
    /\ question' = NoRecord /\ answer' = NoLocal /\ evaluation' = NoRecord
    /\ trace' = [TraceAtClose EXCEPT !.raised = RaisingCall(pc),
                                     !.close_reason = ErrorReason]
    /\ UNCHANGED <<outbox, policy_in, policy_out, peer>>

Next ==
    \/ \E rows \in DBRows : ReceiveChapter(rows)
    \/ AskQuestion
    \/ ReceiveAnswer
    \/ \E text \in Transcriptions : Transcribe(text)
    \/ \E ev \in EvalOutputs : Evaluate(ev)
    \/ Decide
    \/ SendFeedback
    \/ \E outcome \in TextFrameOutcomes : ReceiveTextAnswer(outcome)
    \/ MalformedSelection
    \/ Disconnect
    \/ Fail

Spec == Init /\ [][Next]_vars

(* ---------------------------------------------------------------------- *)
(* The policy on its own: every input, one call                            *)
(* ---------------------------------------------------------------------- *)
\* the categories the policy has a branch for
ErrorCategory ==
    {"conceptual", "procedural", "factual", "application", "reasoning",
     "communication/articulation", "metacognitive", "no error"}

\* those, strings outside the set, and None
PolicyErrors ==
    ErrorCategory \cup {"communication", "applicationreasoning", "unknown", NoneValue}

\* every value an aggregated score takes after one or two turns: k/2 in [1, 10]
PolicyScores == {Rat(h, 2) : h \in (2 * MinScore)..(2 * MaxScore)}

PolicyInputs ==
    [error : PolicyErrors, correctness : PolicyScores, depth : PolicyScores,
     clarity : PolicyScores, turn_count : 0..MaxTurnInput]

InitPolicy ==
    /\ pc = "policy"
    /\ iterator_list = <<>>
    /\ idx = 0
    /\ question = NoRecord
    /\ answer = NoLocal
    /\ evaluation = NoRecord
    /\ outbox = [type |-> "status", body |-> [text |-> "connected"]]
    /\ close_code = 0
    /\ trace = NoTrace
    /\ policy_in \in PolicyInputs
    /\ policy_out = NoLocal
    /\ peer = NoPeer

PolicyCall ==
    /\ pc = "policy"
    /\ policy_out = NoLocal
    /\ policy_out' = viva_router(policy_in.error, policy_in.correctness, policy_in.depth,
                                 policy_in.clarity, policy_in.turn_count)
    /\ UNCHANGED <<ctl_vars, policy_in, peer>>

NextPolicy == PolicyCall

SpecPolicy == InitPolicy /\ [][NextPolicy]_vars

Called == policy_out # NoLocal


(* ---------------------------------------------------------------------- *)
(* Properties of the policy (checked under SpecPolicy)                     *)
(* ---------------------------------------------------------------------- *)
\* C1: for every error value (unknown strings and None included), every score
\* triple and every turn_count > 2 the policy returns "Move On"; no other branch
\* is looked at first.
C1_HardCapForcesMoveOn ==
    (Called /\ policy_in.turn_count > 2) => policy_out = "Move On"

\* a call above the cap whose error and score would otherwise ask for remediation
C1_Witness ==
    /\ Called
    /\ policy_in.turn_count = 3
    /\ policy_in.error = "factual"
    /\ policy_in.correctness = RatInt(1)
    /\ policy_out = "Move On"

MasteryScores(correctness, depth, clarity) ==
    RatGtInt(correctness, 8) /\ RatGtInt(depth, 8) /\ RatGtInt(clarity, 8)

\* C5: with error "no error" and all three scores strictly above 8 the policy
\* returns "Move On" when turn_count >= 2 and the go-deeper directive when
\* turn_count = 1; with a score of exactly 8 it is not the mastery branch that
\* answers.
C5_MasteryShortCircuit ==
    (Called /\ policy_in.error = "no error") =>
        LET mastery == MasteryScores(policy_in.correctness, policy_in.depth, policy_in.clarity)
            an_eight == \/ policy_in.correctness = RatInt(8)
                        \/ policy_in.depth = RatInt(8)
                        \/ policy_in.clarity = RatInt(8)
        IN  /\ (mastery /\ policy_in.turn_count >= 2) => policy_out = "Move On"
            /\ (mastery /\ policy_in.turn_count = 1) =>
                   policy_out = "Ask one slightly deeper or application-oriented question on this concept."
            /\ (an_eight /\ policy_in.turn_count = 1) =>
                   policy_out = "Test this concept using a different question/approach."

\* the scenario error = no error, 9/9/9, turn_count = 2
C5_Witness ==
    /\ Called
    /\ policy_in.error = "no error"
    /\ policy_in.correctness = RatInt(9)
    /\ policy_in.depth = RatInt(9)
    /\ policy_in.clarity = RatInt(9)
    /\ policy_in.turn_count = 2
    /\ policy_out = "Move On"

\* the remediation branch of the input, if it is in one: its directive, else "none"
RemediationOf(error, correctness, depth, clarity) ==
    IF error = "factual" /\ RatLtInt(correctness, 6) THEN FactualDirective
    ELSE IF error = "procedural" /\ RatLtInt(correctness, 6) THEN ProceduralDirective
    ELSE IF error = "application" /\ RatLtInt(depth, 6) THEN ApplicationDirective
    ELSE IF error = "conceptual" /\ RatLtInt(depth, 6) THEN ConceptualDirective
    ELSE IF error = "communication/articulation" /\ RatLtInt(clarity, 6) THEN CommunicationDirective
    ELSE "none"

\* C6: a remediation category with its paired score below 6 gets the category's
\* own directive at turn_count = 1 and "Move On" for the same inputs at
\* turn_count = 2.
C6_RemediateOnceThenAdvance ==
    LET r == RemediationOf(policy_in.error, policy_in.correctness, policy_in.depth,
                           policy_in.clarity)
    IN  (Called /\ r # "none") =>
            /\ policy_in.turn_count = 1 => policy_out = r
            /\ policy_in.turn_count = 2 => policy_out = "Move On"

\* the scenario error = factual, correctness = 4, second turn
C6_Witness ==
    /\ Called
    /\ policy_in.error = "factual"
    /\ policy_in.correctness = RatInt(4)
    /\ policy_in.turn_count = 2
    /\ policy_out = "Move On"

\* a remediation category whose paired score is not below 6
AtOrAboveThreshold(error, correctness, depth, clarity) ==
    \/ error \in {"factual", "procedural"} /\ RatGeInt(correctness, 6)
    \/ error \in {"application", "conceptual"} /\ RatGeInt(depth, 6)
    \/ error = "communication/articulation" /\ RatGeInt(clarity, 6)

\* C7 as stated: a remediation category whose paired score is >= 6 advances
\* ("Move On"), also at turn_count = 1.
C7_AsStated ==
    (Called /\ policy_in.turn_count >= 1
       /\ AtOrAboveThreshold(policy_in.error, policy_in.correctness, policy_in.depth,
                             policy_in.clarity))
    => policy_out = "Move On"

\* C7, amended: a remediation category whose paired score is >= 6 never gets the
\* category's directive; it gets the generic alternate-approach directive at
\* turn_count = 1 and "Move On" from turn_count = 2 on.
C7_ThresholdGatesRemediation ==
    (Called /\ AtOrAboveThreshold(policy_in.error, policy_in.correctness, policy_in.depth,
                                  policy_in.clarity))
    => /\ policy_out \notin {FactualDirective, ProceduralDirective, ApplicationDirective,
                             ConceptualDirective, CommunicationDirective}
       /\ policy_in.turn_count = 1 => policy_out = DefaultDirective
       /\ policy_in.turn_count >= 2 => policy_out = "Move On"

\* factual with correctness exactly 6 on the first turn
C7_Witness ==
    /\ Called
    /\ policy_in.error = "factual"
    /\ policy_in.correctness = RatInt(6)
    /\ policy_in.turn_count = 1
    /\ policy_out = DefaultDirective

\* C8: "reasoning" and "metacognitive" get their probing directive at
\* turn_count = 1 and "Move On" at turn_count = 2, whatever the scores are.
C8_ProbeOnceThenAdvance ==
    (Called /\ policy_in.error \in {"reasoning", "metacognitive"}) =>
        /\ policy_in.turn_count = 1 =>
               policy_out = IF policy_in.error = "reasoning"
                            THEN "Ask a 'why' or 'how' question about the reasoning behind the previous answer."
                            ELSE "Ask the student how they arrived at the answer or what strategy they used."
        /\ policy_in.turn_count = 2 => policy_out = "Move On"

\* reasoning on the first turn with the best possible scores
C8_Witness ==
    /\ Called
    /\ policy_in.error = "reasoning"
    /\ policy_in.correctness = RatInt(10)
    /\ policy_in.depth = RatInt(10)
    /\ policy_in.clarity = RatInt(10)
    /\ policy_in.turn_count = 1
    /\ policy_out = ReasoningDirective

\* no category branch is taken for this input
NoBranchMatches(error, correctness, depth, clarity) ==
    /\ ~(error = "no error" /\ MasteryScores(correctness, depth, clarity))
    /\ RemediationOf(error, correctness, depth, clarity) = "none"
    /\ error \notin {"reasoning", "metacognitive"}

\* C9: when no category branch matches, the policy returns the generic
\* alternate-approach directive at turn_count = 1 and "Move On" at turn_count = 2.
C9_DefaultBranch ==
    (Called /\ NoBranchMatches(policy_in.error, policy_in.correctness, policy_in.depth,
                               policy_in.clarity))
    => /\ policy_in.turn_count = 1 =>
              policy_out = "Test this concept using a different question/approach."
       /\ policy_in.turn_count = 2 => policy_out = "Move On"

\* "no error" with a correctness of 7.5 on the first turn
C9_Witness ==
    /\ Called
    /\ policy_in.error = "no error"
    /\ policy_in.correctness = Rat(15, 2)
    /\ policy_in.depth = RatInt(10)
    /\ policy_in.turn_count = 1
    /\ policy_out = "Test this concept using a different question/approach."

\* every value the policy can return
Directives ==
    {MoveOn, DeeperDirective, FactualDirective, ProceduralDirective, ApplicationDirective,
     ReasoningDirective, ConceptualDirective, CommunicationDirective,
     MetacognitiveDirective, DefaultDirective}

\* C10: given an error value outside the closed category set (an unknown string
\* or None) or a turn_count of zero, the policy reports an error and returns no
\* directive.
C10_FailsFast ==
    (Called /\ (policy_in.error \notin ErrorCategory \/ policy_in.turn_count = 0))
    => policy_out \notin Directives

(* ---------------------------------------------------------------------- *)
(* Properties of the controller (checked under Spec)                       *)
(* ---------------------------------------------------------------------- *)
Fields == {"correctness", "depth", "clarity"}

\* sum of one field over the raw scores recorded in a memory
RECURSIVE SumField(_, _)
SumField(memory, f) ==
    IF memory = <<>> THEN 0
    ELSE memory[Len(memory)].score[f] + SumField(SubSeq(memory, 1, Len(memory) - 1), f)

\* the aggregated score is the arithmetic mean of the recorded raw scores
IsMeanOfMemory(it) ==
    \A f \in Fields : it.score[f] = Rat(SumField(it.memory, f), Len(it.memory))

\* C2: after the n-th evaluated turn of a concept (n >= 1) each aggregated field
\* equals the exact arithmetic mean of the n scores the evaluator returned.
C2_RunningMeanExact ==
    \A i \in DOMAIN iterator_list :
        Len(iterator_list[i].memory) >= 1 => IsMeanOfMemory(iterator_list[i])

\* two turns scored 10 and 1 in some order: the mean 5.5 is not an integer
C2_Witness ==
    \E i \in DOMAIN iterator_list :
        /\ Len(iterator_list[i].memory) = 2
        /\ iterator_list[i].score.correctness = Rat(11, 2)

\* C3 as stated: once a turn has been scored, the score is the mean over exactly
\* turn_count observations, turn_count being the session's current value.
C3_AsStated ==
    \A i \in DOMAIN iterator_list :
        Len(iterator_list[i].memory) >= 1 =>
            /\ Len(iterator_list[i].memory) = iterator_list[i].turn_count
            /\ IsMeanOfMemory(iterator_list[i])

\* C3, amended: once a turn has been scored, the score is the mean over exactly
\* len(memory) observations; that number is turn_count only between the update
\* and the increment of the turn being processed, and turn_count - 1 otherwise.
C3_MeanOverRecordedTurns ==
    \A i \in DOMAIN iterator_list :
        Len(iterator_list[i].memory) >= 1 =>
            /\ IsMeanOfMemory(iterator_list[i])
            /\ Len(iterator_list[i].memory) =
                   IF pc = "interim" /\ i = idx
                   THEN iterator_list[i].turn_count
                   ELSE iterator_list[i].turn_count - 1

\* the second question of a concept is out: one observation, turn_count = 2
C3_Witness ==
    /\ pc = "await_answer"
    /\ Len(iterator_list[idx].memory) = 1
    /\ iterator_list[idx].turn_count = 2

InRange(r) == RatGeInt(r, 1) /\ RatLeInt(r, 10)

SentinelOrInRange(score) ==
    \/ score = ZeroScore
    \/ \A f \in Fields : InRange(score[f])

\* C4: every aggregated score of every concept is the all-zero sentinel (nothing
\* scored yet) or has all fields in [1, 10], and so has every score sent in the
\* final feedback message.
C4_ScoresBounded ==
    /\ \A i \in DOMAIN iterator_list :
           /\ SentinelOrInRange(iterator_list[i].score)
           /\ iterator_list[i].score = ZeroScore <=> iterator_list[i].memory = <<>>
    /\ outbox.type = "feedback" =>
           \A n \in DOMAIN outbox.body.scores : SentinelOrInRange(outbox.body.scores[n])

\* a feedback message carrying both extremes: a 10 and a 1
C4_Witness ==
    /\ outbox.type = "feedback"
    /\ \E n \in DOMAIN outbox.body.scores : outbox.body.scores[n].correctness = RatInt(10)
    /\ \E n \in DOMAIN outbox.body.scores : outbox.body.scores[n].clarity = RatInt(1)

\* soundness of the rational model: every aggregated value is k/2, exact in floats
DyadicScores ==
    \A i \in DOMAIN iterator_list :
        \A f \in Fields : iterator_list[i].score[f][2] \in {1, 2}

(* ---------------------------------------------------------------------- *)
(* Concept sessions: how they end (checked under Spec)                     *)
(* ---------------------------------------------------------------------- *)
\* the handler is inside the while loop of concept idx
InSession == pc \in {"ask", "await_answer", "transcribe", "evaluate", "interim"}

\* the session of concept i is over
Ended(i) == pc \in {"feedback", "await_chapter"} \/ (InSession /\ i < idx)

\* C12: once the transcription of an answer was "exit", the session of that
\* concept is over at once: the handler is never again at a question
\* generation, an answer, an evaluation or a policy call of that concept, and
\* the concept keeps the state it had (at most one record, no "Move On").
C12_ExitEndsSession ==
    /\ InSession => idx \notin trace.exited
    /\ pc # "closed" =>
           \A i \in trace.exited :
               /\ Ended(i)
               /\ Len(iterator_list[i].memory) = iterator_list[i].turn_count - 1
               /\ Len(iterator_list[i].memory) <= 1
               /\ iterator_list[i].next_step # MoveOn

\* concept 1 was left by an exit on its second turn and concept 2 is being asked
C12_Witness ==
    /\ pc = "await_answer"
    /\ idx = 2
    /\ 1 \in trace.exited
    /\ Len(iterator_list[1].memory) = 1

\* C13: a concept session is over exactly when the policy has returned
\* "Move On", or the answer was the exit sentinel, or turn_count has passed the
\* hard cap of 2; and no session completes more than 2 turns.
C13_SessionStops ==
    pc # "closed" =>
        \A i \in DOMAIN iterator_list :
            /\ Ended(i) <=> \/ iterator_list[i].next_step = "Move On"
                            \/ i \in trace.exited
                            \/ iterator_list[i].turn_count > 2
            /\ Len(iterator_list[i].memory) <= 2
            /\ iterator_list[i].turn_count - 1 <= 2

\* one session ended by the exit sentinel, the other by "Move On" after 2 turns
C13_Witness ==
    /\ pc = "feedback"
    /\ Len(iterator_list) = 2
    /\ 1 \in trace.exited
    /\ iterator_list[2].next_step = "Move On"
    /\ Len(iterator_list[2].memory) = 2

(* ---------------------------------------------------------------------- *)
(* Termination of a run                                                    *)
(* ---------------------------------------------------------------------- *)
\* the steps of a run: each one is an awaited call that returns, or the
\* client's answer arriving
RunStep ==
    \/ AskQuestion
    \/ ReceiveAnswer
    \/ \E text \in Transcriptions : Transcribe(text)
    \/ \E ev \in EvalOutputs : Evaluate(ev)
    \/ Decide
    \/ SendFeedback

\* the handler's steps when the client stays connected and no call raises
NextLive ==
    \/ \E rows \in DBRows : ReceiveChapter(rows)
    \/ RunStep

\* every awaited call returns and the client sends every requested answer
\* (the handler is sequential: at most one kind of run step is enabled in a
\* state); nothing obliges the client to select another chapter
SpecLive == Init /\ [][NextLive]_vars /\ WF_vars(RunStep)

\* a chapter was found and its run has not yet sent the feedback
InRun == pc \in {"ask", "await_answer", "transcribe", "evaluate", "interim",
                 "feedback"}

\* the feedback of the current run is the last message sent
FeedbackSent ==
    /\ pc = "await_chapter"
    /\ outbox.type = "feedback"
    /\ trace.n_feedback = 1

\* C14: when the client sends every requested answer and every external call
\* returns, every run whose chapter lookup succeeded eventually sends the
\* final feedback message, whatever the number of concepts and whatever the
\* evaluator returns.
C14_RunSendsFeedback == InRun ~> FeedbackSent

\* a run over two concepts, both taken to their second turn, has sent its
\* feedback
C14_Witness ==
    /\ FeedbackSent
    /\ Len(iterator_list) = 2
    /\ \A i \in 1..2 : Len(iterator_list[i].memory) = 2

(* ---------------------------------------------------------------------- *)
(* Order of the concept sessions and of the turns                          *)
(* ---------------------------------------------------------------------- *)
\* the session of concept i has reached one of its two exits
Terminated(i) == iterator_list[i].next_step = MoveOn \/ i \in trace.exited

\* concept i is as the constructor left it
Fresh(i) == iterator_list[i] = NewIterator(iterator_list[i].concept_name)

\* C15: the concept sessions run one after another in the order of the list:
\* while concept idx is in session every earlier concept has terminated and
\* every later one is still as constructed (scores 0/0/0, empty memory,
\* directive "none", turn_count 1), the question in flight is about concept
\* idx, a session's first question is asked from that constructed state, and
\* the feedback is computed and sent only when every session has terminated.
C15_SessionsInOrder ==
    /\ InSession =>
           /\ idx \in DOMAIN iterator_list
           /\ \A i \in DOMAIN iterator_list :
                  /\ i < idx => Terminated(i)
                  /\ i > idx => Fresh(i)
           /\ ~Terminated(idx)
           /\ trace.n_feedback = 0
           /\ pc = "ask" /\ iterator_list[idx].turn_count = 1 => Fresh(idx)
           /\ pc \in {"await_answer", "transcribe", "evaluate"} =>
                  /\ question.concept = iterator_list[idx].concept_name
                  /\ outbox = [type |-> "question", body |-> question]
    /\ pc = "feedback" \/ trace.n_feedback > 0 =>
           \A i \in DOMAIN iterator_list : Terminated(i)

\* the second session is about to ask its first question after the first one
\* ran its two turns
C15_Witness ==
    /\ pc = "ask"
    /\ idx = 2
    /\ iterator_list[1].next_step = MoveOn
    /\ Len(iterator_list[1].memory) = 2
    /\ Fresh(2)

\* number of turn records over all concepts of the run
RECURSIVE TurnsRecorded(_)
TurnsRecorded(list) ==
    IF list = <<>> THEN 0
    ELSE Len(list[Len(list)].memory) + TurnsRecorded(SubSeq(list, 1, Len(list) - 1))

\* turns of the run that are over: the interim result was sent, or the answer
\* was "exit"
TurnsDone ==
    TurnsRecorded(iterator_list) + Cardinality(trace.exited)
        - (IF pc = "interim" THEN 1 ELSE 0)

\* C16: turns do not overlap. While a question is being generated or is out,
\* every earlier question of the run has had its answer received and
\* transcribed and, unless that answer was "exit", evaluated, recorded and
\* followed by its interim result; nothing of the current turn exists yet.
\* Inside a turn the steps come in the order answer, transcription,
\* evaluation, interim result.
C16_TurnsDoNotOverlap ==
    InSession =>
        LET concept == iterator_list[idx]
            asked == IF pc = "ask" THEN trace.n_question
                     ELSE trace.n_question - 1
        IN  /\ asked = TurnsDone
            /\ trace.n_interim = TurnsDone - Cardinality(trace.exited)
            /\ trace.n_answer = TurnsDone
                   + (IF pc \in {"transcribe", "evaluate", "interim"} THEN 1 ELSE 0)
            /\ pc \in {"ask", "await_answer", "transcribe"} =>
                   /\ Len(concept.memory) = concept.turn_count - 1
                   /\ answer = NoLocal
            /\ pc \in {"await_answer", "transcribe"} =>
                   question.state_till_now = concept.turn_count - 1
            /\ pc = "evaluate" =>
                   /\ answer \in Transcriptions \ {"exit"}
                   /\ Len(concept.memory) = concept.turn_count - 1
            /\ pc = "interim" =>
                   /\ answer \in Transcriptions \ {"exit"}
                   /\ Len(concept.memory) = concept.turn_count

\* the second question of a concept is out: the first turn is recorded and
\* its interim result was sent
C16_Witness ==
    /\ pc = "await_answer"
    /\ iterator_list[idx].turn_count = 2
    /\ question.state_till_now = 1
    /\ trace.n_question = 2
    /\ trace.n_interim = 1

(* ---------------------------------------------------------------------- *)
(* Messages of a run                                                       *)
(* ---------------------------------------------------------------------- *)
\* the handler is between two turns of a run, or the run is over
BetweenTurns == pc \in {"ask", "feedback"} \/ FeedbackSent

\* C17 as stated: between turns the run has sent as many questions as it has
\* received answers and as it has sent interim results, and a finished run
\* has sent one feedback.
C17_AsStated ==
    /\ BetweenTurns =>
           /\ trace.n_question = trace.n_answer
           /\ trace.n_answer = trace.n_interim
    /\ FeedbackSent => trace.n_feedback = 1

\* C17 (amended): every turn sends one question and consumes one answer; a
\* turn sends one interim result unless its answer was "exit", in which case
\* it sends none; a run that reaches its end sends one feedback, and no run
\* sends more than one.
C17_MessageCounts ==
    /\ BetweenTurns =>
           /\ trace.n_question = trace.n_answer
           /\ trace.n_question = TurnsRecorded(iterator_list) + Cardinality(trace.exited)
           /\ trace.n_interim = TurnsRecorded(iterator_list)
    /\ trace.n_feedback \in {0, 1}
    /\ InSession \/ pc = "feedback" => trace.n_feedback = 0
    /\ pc = "await_chapter" /\ outbox.type = "feedback" => trace.n_feedback = 1

\* a finished run of three turns, the last one cut by "exit": three questions,
\* three answers, two interim results, one feedback
C17_Witness ==
    /\ FeedbackSent
    /\ trace.exited = {2}
    /\ trace.n_question = 3
    /\ trace.n_answer = 3
    /\ trace.n_interim = 2
    /\ trace.n_feedback = 1

(* ---------------------------------------------------------------------- *)
(* The report                                                              *)
(* ---------------------------------------------------------------------- *)
NamesOf(list) == {list[i].concept_name : i \in DOMAIN list}

DistinctNames(list) ==
    \A i, j \in DOMAIN list : list[i].concept_name = list[j].concept_name => i = j

\* C18: the report of a run over N concepts with pairwise distinct names and
\* no "exit" answer has a scores mapping with exactly N keys, the concept
\* names, and every concept's list of turn records has exactly 2 entries.
C18_ReportShape ==
    FeedbackSent /\ DistinctNames(iterator_list) /\ trace.exited = {} =>
        /\ DOMAIN outbox.body.scores = NamesOf(iterator_list)
        /\ Cardinality(DOMAIN outbox.body.scores) = Len(iterator_list)
        /\ Len(trace.viva_history) = Len(iterator_list)
        /\ \A i \in DOMAIN iterator_list : Len(trace.viva_history[i]) = 2

\* the report of a run over the two concepts "A" and "B", four turns in all
C18_Witness ==
    /\ FeedbackSent
    /\ Len(iterator_list) = 2
    /\ DistinctNames(iterator_list)
    /\ trace.exited = {}
    /\ DOMAIN outbox.body.scores = {"A", "B"}
    /\ trace.n_interim = 4

\* C19: with two concepts of the same name both sessions are run and both
\* lists of turn records go to the feedback synthesis, one per concept in
\* list order; the scores mapping has one key per distinct name, and the
\* value under a name is the score of the last concept of that name.
C19_DuplicateNames ==
    FeedbackSent =>
        /\ \A i \in DOMAIN iterator_list :
               /\ Terminated(i)
               /\ i \notin trace.exited => Len(iterator_list[i].memory) = 2
        /\ DOMAIN trace.viva_history = DOMAIN iterator_list
        /\ \A i \in DOMAIN iterator_list :
               trace.viva_history[i] = iterator_list[i].memory
        /\ DOMAIN outbox.body.scores = NamesOf(iterator_list)
        /\ \A i \in DOMAIN iterator_list :
               (\A j \in DOMAIN iterator_list :
                    j > i => iterator_list[j].concept_name # iterator_list[i].concept_name)
               => outbox.body.scores[iterator_list[i].concept_name]
                      = iterator_list[i].score

\* two concepts named "A" with different scores: one key, the second score
C19_Witness ==
    /\ FeedbackSent
    /\ Len(iterator_list) = 2
    /\ iterator_list[1].concept_name = "A"
    /\ iterator_list[2].concept_name = "A"
    /\ Len(iterator_list[1].memory) = 2
    /\ Len(iterator_list[2].memory) = 2
    /\ iterator_list[1].score # iterator_list[2].score
    /\ DOMAIN outbox.body.scores = {"A"}
    /\ outbox.body.scores["A"] = iterator_list[2].score
    /\ Len(trace.viva_history) = 2

(* ---------------------------------------------------------------------- *)
(* A lookup without concepts                                               *)
(* ---------------------------------------------------------------------- *)
\* C20: a chapter lookup that yields no concepts is reported as not found and
\* goes no further: the handler is never at the feedback synthesis, and has
\* never sent a feedback, for a selection with an empty concept list.
C20_NoConceptsNotFound ==
    /\ pc = "feedback" => iterator_list # <<>>
    /\ FeedbackSent => /\ iterator_list # <<>>
                       /\ DOMAIN outbox.body.scores # {}

(* ---------------------------------------------------------------------- *)
(* Errors on the connection                                                *)
(* ---------------------------------------------------------------------- *)
\* C21: a malformed chapter selection (a missing key) is answered with a
\* structured error message on a transport that stays open, like an unknown
\* chapter, and no question is sent for it.
C21_SelectionErrorsReported ==
    trace.raised = "KeyError" =>
        /\ outbox.type = "error"
        /\ close_code = 0
        /\ pc = "await_chapter"

Capabilities ==
    {"get_chapter_structured_summary", "generate_viva_question",
     "transcribe_audio", "evaluate_viva_answer", "viva_feedback"}

\* C22: the step in which a capability call raises closes the transport with
\* status 1011 and the reason "An error occurred", sends nothing, leaves the
\* run without a feedback message, and is the handler's last step: the call
\* is not tried again and nothing is sent afterwards.
C22_CapabilityFailureIsFatal ==
    [][/\ pc # "closed"
       /\ (trace.raised = NoLocal /\ trace'.raised \in Capabilities) =>
              /\ pc' = "closed"
              /\ close_code' = 1011
              /\ trace'.close_reason = "An error occurred"
              /\ outbox' = outbox
              /\ trace'.n_feedback = 0
              /\ trace'.n_question = IF pc = "await_chapter" THEN 0 ELSE trace.n_question
              /\ trace'.n_interim = IF pc = "await_chapter" THEN 0 ELSE trace.n_interim]_vars

\* the evaluator raised on the second answer of a run
C22_Witness ==
    /\ pc = "closed"
    /\ close_code = 1011
    /\ trace.raised = "evaluate_viva_answer"
    /\ trace.close_reason = "An error occurred"
    /\ trace.n_answer = 2
    /\ trace.n_interim = 1
    /\ trace.n_feedback = 0

\* C23: the step in which the transport disconnects is the handler's last
\* one: nothing is sent in it or after it, the run in progress has no
\* feedback, the connection is not closed with an error status, and the
\* handler's per-session state is gone.
C23_DisconnectEndsCleanly ==
    [][/\ pc # "closed"
       /\ trace'.raised = "WebSocketDisconnect" =>
              /\ pc' = "closed"
              /\ close_code' = 0
              /\ trace'.close_reason = NoLocal
              /\ outbox' = outbox
              /\ pc # "await_chapter" => trace'.n_feedback = 0
              /\ iterator_list' = <<>>
              /\ question' = NoRecord /\ answer' = NoLocal /\ evaluation' = NoRecord]_vars

\* the client went away while its first answer was awaited
C23_Witness ==
    /\ pc = "closed"
    /\ close_code = 0
    /\ trace.raised = "WebSocketDisconnect"
    /\ trace.n_question = 1
    /\ trace.n_answer = 0
    /\ iterator_list = <<>>

\* C24: an answer that arrives as text is evaluated as given: receiving it
\* does not end the session and does not reach the transcription capability.
C24_TextAnswerAccepted ==
    trace.text_frame =>
        /\ pc # "closed"
        /\ close_code = 0
        /\ trace.raised # "transcribe_audio"

(* ---------------------------------------------------------------------- *)
(* The turn pipeline                                                       *)
(* ---------------------------------------------------------------------- *)
\* the directive the policy gives for concept c after its last recorded turn:
\* the error type of that turn, the aggregated scores as they are after it,
\* and the turn_count the turn ran with
DirectiveAfterLastTurn(c) ==
    viva_router(c.memory[Len(c.memory)].error_type, c.score.correctness,
                c.score.depth, c.score.clarity, Len(c.memory))

\* C26: the policy is consulted after the score update and the append, with
\* the updated scores and the turn_count of the turn, and turn_count is
\* incremented by 1 after it: between turns a concept with n >= 1 records
\* has turn_count n + 1 and the directive the policy gives for (error of
\* record n, current scores, n); while a turn is in progress the counter is
\* still that of the turn; and the question of the following turn carries
\* that directive as its special instructions.
C26_TurnPipeline ==
    pc # "closed" =>
        /\ \A i \in DOMAIN iterator_list :
               LET c == iterator_list[i]
                   n == Len(c.memory)
                   in_turn == pc = "interim" /\ i = idx
               IN  /\ n = 0 => c.next_step = "none" /\ c.turn_count = 1
                   /\ n >= 1 /\ ~in_turn =>
                          /\ c.turn_count = n + 1
                          /\ c.next_step = DirectiveAfterLastTurn(c)
                   /\ in_turn => c.turn_count = n
        /\ pc \in {"await_answer", "transcribe", "evaluate", "interim"} =>
               question.special_instructions = iterator_list[idx].next_step

\* the second question of a concept carries the directive chosen for a
\* factual error on the first turn
C26_Witness ==
    /\ pc = "await_answer"
    /\ iterator_list[idx].turn_count = 2
    /\ iterator_list[idx].memory[1].error_type = "factual"
    /\ question.special_instructions = FactualDirective

\* between turns every concept has one record per completed turn
MemoryTracksTurnCount ==
    pc # "closed" =>
        \A i \in DOMAIN iterator_list :
            Len(iterator_list[i].memory) =
                iterator_list[i].turn_count - (IF pc = "interim" /\ i = idx THEN 0 ELSE 1)

\* a step of a run keeps every memory, or is the evaluated turn of concept idx
\* appending its own record at the end
MemoryOnlyAppended ==
    (pc # "await_chapter" /\ pc' # "closed") =>
        /\ DOMAIN iterator_list' = DOMAIN iterator_list
        /\ \A i \in DOMAIN iterator_list :
               \/ iterator_list'[i].memory = iterator_list[i].memory
               \/ /\ pc = "evaluate" /\ i = idx
                  /\ iterator_list'[i].memory =
                         Append(iterator_list[i].memory,
                                [question |-> question, answer |-> answer,
                                 score |-> evaluation'.score,
                                 error_type |-> evaluation'.error_type])

\* C27: a concept's memory is append-only and tracks the turn counter:
\* between turns len(memory) = turn_count - 1; an evaluated turn appends one
\* record (question, answer, the turn's raw score, error type) at the end; no
\* step of a run changes or removes a record before the report is sent.
C27_MemoryAppendOnly == []MemoryTracksTurnCount /\ [][MemoryOnlyAppended]_vars

\* two records, the first one still the record of the first turn
C27_Witness ==
    /\ pc = "interim"
    /\ Len(iterator_list[idx].memory) = 2
    /\ iterator_list[idx].memory[1].question.state_till_now = 0
    /\ iterator_list[idx].memory[2].question.state_till_now = 1
    /\ iterator_list[idx].memory[1].score # iterator_list[idx].memory[2].score

(* ---------------------------------------------------------------------- *)
(* The older copy of the controller (application.py)                       *)
(* ---------------------------------------------------------------------- *)
\* the accumulation without the division
LegacyAggregateNoDivide(current, turn_count, incoming) == RatAddInt(current, incoming)

\* x += incoming; x = x / turn_count, lines 499-504
LegacyAggregate(current, turn_count, incoming) ==
    RatDivInt(RatAddInt(current, incoming), turn_count)

LegacyUpdateScore(score, turn_count, incoming) ==
    [correctness |-> LegacyAggregate(score.correctness, turn_count, incoming.correctness),
     depth       |-> LegacyAggregate(score.depth, turn_count, incoming.depth),
     clarity     |-> LegacyAggregate(score.clarity, turn_count, incoming.clarity)]

\* the older policy with the hard cap of the newer one in front
legacy_viva_router_capped(error, correctness, depth, clarity, turn_count) ==
    IF turn_count > 2
    THEN "Move On"
    ELSE IF error = "no error" /\ RatGtInt(correctness, 8) /\ RatGtInt(depth, 8)
          /\ RatGtInt(clarity, 8) /\ turn_count >= 2
    THEN "Move On"
    ELSE IF error = "factual" /\ RatLtInt(correctness, 6)
    THEN "Ask another question focused on the same factual point, but phrase it differently."
    ELSE IF error = "procedural" /\ RatLtInt(correctness, 6)
    THEN "Generate a question that tests the same procedure in a slightly different way"
    ELSE IF error = "application" /\ RatLtInt(depth, 6)
    THEN "Provide a simple real-world example that demonstrates the application of this concept. Then ask a follow-up question about it."
    ELSE IF error = "reasoning"
    THEN "Ask a 'why' or 'how' question about the reasoning behind the previous answer."
    ELSE IF error = "conceptual" /\ RatLtInt(depth, 6)
    THEN "Ask a foundational question that breaks the concept into simpler parts. Include analogies if useful."
    ELSE IF error = "communication/articulation" /\ RatLtInt(clarity, 6)
    THEN "Ask the student to explain the same answer again in clearer or simpler terms."
    ELSE IF error = "metacognitive"
    THEN "Ask the student how they arrived at the answer or what strategy they used."
    ELSE "Test this concept using a different question/approach"

\* application.viva_router, lines 269-287
legacy_viva_router(error, correctness, depth, clarity, turn_count) ==
    IF error = "no error" /\ RatGtInt(correctness, 8) /\ RatGtInt(depth, 8)
          /\ RatGtInt(clarity, 8) /\ turn_count >= 2
    THEN "Move On"
    ELSE IF error = "factual" /\ RatLtInt(correctness, 6)
    THEN "Ask another question focused on the same factual point, but phrase it differently."
    ELSE IF error = "procedural" /\ RatLtInt(correctness, 6)
    THEN "Generate a question that tests the same procedure in a slightly different way"
    ELSE IF error = "application" /\ RatLtInt(depth, 6)
    THEN "Provide a simple real-world example that demonstrates the application of this concept. Then ask a follow-up question about it."
    ELSE IF error = "reasoning"
    THEN "Ask a 'why' or 'how' question about the reasoning behind the previous answer."
    ELSE IF error = "conceptual" /\ RatLtInt(depth, 6)
    THEN "Ask a foundational question that breaks the concept into simpler parts. Include analogies if useful."
    ELSE IF error = "communication/articulation" /\ RatLtInt(clarity, 6)
    THEN "Ask the student to explain the same answer again in clearer or simpler terms."
    ELSE IF error = "metacognitive"
    THEN "Ask the student how they arrived at the answer or what strategy they used."
    ELSE "Test this concept using a different question/approach"

\* the lookup of the newer copy, which gives {} when no row matches
legacy_lookup_checked(rows) ==
    IF rows # <<>> THEN rows[1] ELSE EmptyDict

\* application.get_chapter_structured_summary: response.data[0] with no test
legacy_get_chapter_structured_summary(rows) ==
    IF rows # <<>> THEN rows[1] ELSE [raise |-> "IndexError"]

\* the call raised
Raises(result) == "raise" \in DOMAIN result

\* the older controller is driven with chapters of at most one concept and
\* with every score 1..10, the same in the three fields
LegacyDBRows == {<<>>} \cup {<<s>> : s \in {t \in Summaries : Len(t.concepts) <= 1}}

LegacyEvalOutputs ==
    {[score |-> [correctness |-> a, depth |-> a, clarity |-> a], error_type |-> e] :
        a \in MinScore..MaxScore, e \in {"no error", "factual"}}

InitLegacy ==
    /\ pc = "legacy_await_chapter"
    /\ iterator_list = <<>>
    /\ idx = 0
    /\ question = NoRecord
    /\ answer = NoLocal
    /\ evaluation = NoRecord
    /\ outbox = [type |-> "status", body |-> [text |-> "connected"]]
    /\ close_code = 0
    /\ trace = NoTrace
    /\ policy_in = NoPolicyIn
    /\ policy_out = NoLocal
    /\ peer = NoPeer

\* where the older for loop goes once the session of concept i has ended
LegacyAfterConcept(list, i) ==
    IF i < Len(list) THEN [pc |-> "legacy_turn", idx |-> i + 1]
    ELSE [pc |-> "legacy_feedback", idx |-> i]

\* receive_json, the unchecked lookup and chapter_summary_structured["concepts"]
LegacyReceiveChapter(rows) ==
    /\ pc = "legacy_await_chapter"
    /\ close_code = 0
    /\ LET chapter_summary_structured == legacy_get_chapter_structured_summary(rows)
           failed == \/ Raises(chapter_summary_structured)
                     \/ ~chapter_summary_structured.has_concepts
       IN  IF failed
           THEN /\ pc' = "closed"
                /\ close_code' = 1011
                /\ iterator_list' = <<>> /\ idx' = 0
                /\ trace' = [NoTrace EXCEPT
                                !.raised = IF Raises(chapter_summary_structured)
                                           THEN chapter_summary_structured.raise
                                           ELSE "KeyError",
                                !.close_reason = ErrorReason]
           ELSE LET concepts == chapter_summary_structured.concepts
                    list == [i \in DOMAIN concepts |-> NewIterator(concepts[i])]
                IN  /\ iterator_list' = list
                    /\ pc' = IF list = <<>> THEN "legacy_feedback" ELSE "legacy_turn"
                    /\ idx' = IF list = <<>> THEN 0 ELSE 1
                    /\ trace' = NoTrace
                    /\ close_code' = close_code
    /\ UNCHANGED <<question, answer, evaluation, outbox, policy_in, policy_out, peer>>

\* one pass of the older while loop with an answer other than "exit"
LegacyTurn(ev) ==
    /\ pc = "legacy_turn"
    /\ LET concept == iterator_list[idx]
           q == [concept |-> concept.concept_name,
                 state_till_now |-> Len(concept.memory),
                 special_instructions |-> concept.next_step]
           rec == [question |-> q, answer |-> "an answer",
                   score |-> ev.score, error_type |-> ev.error_type]
           score == LegacyUpdateScore(concept.score, concept.turn_count, ev.score)
           next_step == legacy_viva_router(ev.error_type, score.correctness, score.depth,
                                           score.clarity, concept.turn_count)
           turn_count == concept.turn_count + 1
           nxt == LegacyAfterConcept(iterator_list, idx)
       IN  /\ iterator_list' = [iterator_list EXCEPT ![idx] =
                   [concept EXCEPT !.score = score, !.memory = Append(concept.memory, rec),
                                   !.next_step = next_step, !.turn_count = turn_count]]
           /\ IF turn_count > 3 \/ next_step = "Move On"
              THEN pc' = nxt.pc /\ idx' = nxt.idx
              ELSE pc' = "legacy_turn" /\ idx' = idx
    /\ outbox' = [type |-> "answer", body |-> [text |-> "reasoning"]]
    /\ trace' = [trace EXCEPT !.n_question = @ + 1, !.n_answer = @ + 1,
                              !.n_interim = @ + 1]
    /\ UNCHANGED <<question, answer, evaluation, close_code, policy_in, policy_out, peer>>

\* one pass of the older while loop with the answer "exit"
LegacyExit ==
    /\ pc = "legacy_turn"
    /\ LET concept == iterator_list[idx]
           nxt == LegacyAfterConcept(iterator_list, idx)
       IN  /\ outbox' = [type |-> "question",
                         body |-> [concept |-> concept.concept_name,
                                   state_till_now |-> Len(concept.memory),
                                   special_instructions |-> concept.next_step]]
           /\ pc' = nxt.pc /\ idx' = nxt.idx
    /\ trace' = [trace EXCEPT !.exited = @ \cup {idx}, !.n_question = @ + 1,
                              !.n_answer = @ + 1]
    /\ UNCHANGED <<iterator_list, question, answer, evaluation, close_code,
                   policy_in, policy_out, peer>>

\* the older feedback block, lines 518-527
LegacySendFeedback ==
    /\ pc = "legacy_feedback"
    /\ outbox' = [type |-> "feedback",
                  body |-> [scores |-> ScoresDict(iterator_list)]]
    /\ pc' = "legacy_await_chapter"
    /\ trace' = [trace EXCEPT !.n_feedback = @ + 1,
                              !.viva_history = TempMemory(iterator_list)]
    /\ UNCHANGED <<iterator_list, idx, question, answer, evaluation, close_code,
                   policy_in, policy_out, peer>>

\* WebSocketDisconnect in the older handler
LegacyDisconnect ==
    /\ pc \in {"legacy_await_chapter", "legacy_turn", "legacy_feedback"}
    /\ close_code = 0
    /\ pc' = "closed"
    /\ iterator_list' = <<>> /\ idx' = 0
    /\ trace' = [(IF pc = "legacy_await_chapter" THEN NoTrace ELSE trace)
                    EXCEPT !.raised = "WebSocketDisconnect"]
    /\ UNCHANGED <<question, answer, evaluation, outbox, close_code,
                   policy_in, policy_out, peer>>

NextLegacy ==
    \/ \E rows \in LegacyDBRows : LegacyReceiveChapter(rows)
    \/ \E ev \in LegacyEvalOutputs : LegacyTurn(ev)
    \/ LegacyExit
    \/ LegacySendFeedback
    \/ LegacyDisconnect

SpecLegacy == InitLegacy /\ [][NextLegacy]_vars

\* a connection served by either copy of the controller
InitVariants == Init \/ InitLegacy

NextVariants == Next \/ NextLegacy

SpecVariants == InitVariants /\ [][NextVariants]_vars

(* ---------------------------------------------------------------------- *)
(* The two copies compared                                                 *)
(* ---------------------------------------------------------------------- *)
\* C28: in the older copy the aggregated score equals the arithmetic mean of
\* the recorded raw scores after the first and after the second scored turn,
\* for all scores 1..10, and after a third scored turn, which that copy can
\* reach, it does not (it is below the mean in every field).
C28_LegacyMeanUpToTwoTurns ==
    \A i \in DOMAIN iterator_list :
        LET it == iterator_list[i]
            n == Len(it.memory)
        IN  /\ n <= 3
            /\ n \in {1, 2} => IsMeanOfMemory(it)
            /\ n = 3 => \A f \in Fields :
                            /\ it.score[f] # Rat(SumField(it.memory, f), n)
                            /\ it.score[f][1] * n < SumField(it.memory, f) * it.score[f][2]

\* three turns scored 4, 6 and 8: the older copy holds (5 + 8) / 3 = 13/3
\* where the mean is 6
C28_Witness ==
    /\ pc = "legacy_feedback"
    /\ Len(iterator_list) = 1
    /\ Len(iterator_list[1].memory) = 3
    /\ iterator_list[1].memory[1].score.correctness = 4
    /\ iterator_list[1].memory[2].score.correctness = 6
    /\ iterator_list[1].memory[3].score.correctness = 8
    /\ iterator_list[1].score.correctness = <<13, 3>>

\* C29: on an empty lookup result the older copy raises in the unchecked
\* indexing and closes the connection with status 1011 without sending an
\* error or a feedback message, while the newer copy sends
\* {"error": "Chapter not found"} and keeps the connection open for another
\* selection.
C29_EmptyLookupInBothCopies ==
    [][/\ LegacyReceiveChapter(<<>>) =>
              /\ pc' = "closed"
              /\ close_code' = 1011
              /\ trace'.raised = "IndexError"
              /\ outbox' = outbox
       /\ ReceiveChapter(<<>>) =>
              /\ outbox'.type = "error"
              /\ outbox'.body = [text |-> "Chapter not found"]
              /\ pc' = "await_chapter"
              /\ close_code' = 0]_vars

\* the older copy after an empty lookup on a fresh connection: closed with
\* 1011, the last message sent is still the greeting
C29_Witness ==
    /\ pc = "closed"
    /\ close_code = 1011
    /\ trace.raised = "IndexError"
    /\ outbox.type = "status"

(* ---------------------------------------------------------------------- *)
(* The policy as the controller meets it (checked under SpecPolicy)        *)
(* ---------------------------------------------------------------------- *)
\* C30: for every turn_count >= 1, every error value and every score triple
\* the policy returns "Move On" exactly when turn_count >= 2: never on the
\* first turn, mastery included, and always on the second, below the hard cap.
C30_MoveOnIffSecondTurn ==
    (Called /\ policy_in.turn_count >= 1) =>
        (policy_out = "Move On" <=> policy_in.turn_count >= 2)

\* a second-turn call with a low score and a factual error, at the cap and
\* not above it
C30_Witness ==
    /\ Called
    /\ policy_in.turn_count = 2
    /\ policy_in.error = "factual"
    /\ policy_in.correctness = RatInt(1)
    /\ policy_in.depth = RatInt(1)
    /\ policy_out = "Move On"

(* ---------------------------------------------------------------------- *)
(* Two connections served by one event loop (checked under SpecTwo)         *)
(* ---------------------------------------------------------------------- *)
\* the state of one invocation of websocket_audio_endpoint: its websocket and
\* its local variables
Handler(id) ==
    [id |-> id, pc |-> pc, iterator_list |-> iterator_list, idx |-> idx,
     question |-> question, answer |-> answer, evaluation |-> evaluation,
     outbox |-> outbox, close_code |-> close_code, trace |-> trace]

\* the connection whose handler is running
Running == 3 - peer.id

\* the chapters the client of each connection selects: their concept lists differ
ConceptsOf(id) == IF id = 1 THEN {<<"A">>, <<"A", "B">>} ELSE {<<"B">>}

TwoDBRows(id) ==
    {<<>>} \cup {<<[other_keys |-> TRUE, has_concepts |-> TRUE, concepts |-> cs]>> :
                    cs \in ConceptsOf(id)}

\* what the evaluator returns for the answers of each connection
EvalsOf(id) ==
    IF id = 1
    THEN {[score |-> [correctness |-> 9, depth |-> 9, clarity |-> 8], error_type |-> "no error"]}
    ELSE {[score |-> [correctness |-> 1, depth |-> 1, clarity |-> 1], error_type |-> "factual"]}

\* both connections are accepted and both handlers wait for a selection
InitTwo ==
    /\ pc = "await_chapter"
    /\ iterator_list = <<>>
    /\ idx = 0
    /\ question = NoRecord
    /\ answer = NoLocal
    /\ evaluation = NoRecord
    /\ outbox = [type |-> "status", body |-> [text |-> "connected"]]
    /\ close_code = 0
    /\ trace = NoTrace
    /\ policy_in = NoPolicyIn
    /\ policy_out = NoLocal
    /\ peer = Handler(2)

\* iterator_list is a module-level list: both handlers work on the same object
SwitchSharingIterators ==
    /\ peer' = Handler(Running)
    /\ pc' = peer.pc
    /\ iterator_list' = iterator_list
    /\ idx' = peer.idx
    /\ question' = peer.question
    /\ answer' = peer.answer
    /\ evaluation' = peer.evaluation
    /\ outbox' = peer.outbox
    /\ close_code' = peer.close_code
    /\ trace' = peer.trace
    /\ UNCHANGED <<policy_in, policy_out>>

\* the running handler is suspended at an await and the event loop resumes the
\* handler of the other connection, with the locals that handler left
Switch ==
    /\ peer' = Handler(Running)
    /\ pc' = peer.pc
    /\ iterator_list' = peer.iterator_list
    /\ idx' = peer.idx
    /\ question' = peer.question
    /\ answer' = peer.answer
    /\ evaluation' = peer.evaluation
    /\ outbox' = peer.outbox
    /\ close_code' = peer.close_code
    /\ trace' = peer.trace
    /\ UNCHANGED <<policy_in, policy_out>>

NextTwo ==
    \/ \E rows \in TwoDBRows(Running) : ReceiveChapter(rows)
    \/ AskQuestion
    \/ ReceiveAnswer
    \/ \E text \in Transcriptions : Transcribe(text)
    \/ \E ev \in EvalsOf(Running) : Evaluate(ev)
    \/ Decide
    \/ SendFeedback
    \/ Disconnect
    \/ Switch

SpecTwo == InitTwo /\ [][NextTwo]_vars

\* the concept names of a list of Iterator objects, in order
NameSeq(list) == [i \in DOMAIN list |-> list[i].concept_name]

\* the state of handler h is made of the inputs of its own connection: its
\* list is the one of a chapter its client selected, every memory record holds
\* a question on the record's own concept and an evaluation of its own
\* answers, every aggregated score is the mean over its own memory, and its
\* report carries the scores and the memories of its own list
OwnStateOnly(h) ==
    /\ NameSeq(h.iterator_list) \in {<<>>} \cup ConceptsOf(h.id)
    /\ h.pc \in {"ask", "await_answer", "transcribe", "evaluate", "interim"}
           => h.idx \in DOMAIN h.iterator_list
    /\ \A i \in DOMAIN h.iterator_list :
           LET it == h.iterator_list[i]
           IN  /\ IF it.memory = <<>> THEN it.score = ZeroScore ELSE IsMeanOfMemory(it)
               /\ \A k \in DOMAIN it.memory :
                      /\ [score |-> it.memory[k].score,
                          error_type |-> it.memory[k].error_type] \in EvalsOf(h.id)
                      /\ it.memory[k].question.concept = it.concept_name
    /\ (h.pc = "await_chapter" /\ h.outbox.type = "feedback") =>
           /\ h.outbox.body.scores = ScoresDict(h.iterator_list)
           /\ h.trace.viva_history = TempMemory(h.iterator_list)

SessionsIsolated == OwnStateOnly(Handler(Running)) /\ OwnStateOnly(peer)

\* a step of the running handler leaves the suspended handler as it was, and a
\* switch resumes the suspended handler with exactly what it left
PeerUntouched ==
    \/ peer' = peer
    \/ \E id \in {1, 2} :
           /\ id = peer.id
           /\ peer' = Handler(Running)
           /\ Handler(id)' = peer

\* C25: with two viva sessions running on two connections, under every
\* interleaving of their steps, no step of one session changes the other
\* session's per-concept state (score, memory, directive, turn_count), the
\* state of each session is made of its own inputs only, and each session's
\* report carries the means of its own evaluations only.
C25_SessionsIsolated == []SessionsIsolated /\ [][PeerUntouched]_vars

\* both sessions are in the middle of a run: the running one has had its second
\* answer evaluated, the suspended one waits for its second answer
C25_Witness ==
    /\ pc = "interim" /\ peer.pc = "await_answer"
    /\ Len(iterator_list[idx].memory) = 2
    /\ Len(peer.iterator_list[peer.idx].memory) = 1
    /\ Running # peer.id
    /\ trace.n_interim = 1 /\ peer.trace.n_question = 2

(* ---------------------------------------------------------------------- *)
(* Length of a concept session (checked under Spec)                         *)
(* ---------------------------------------------------------------------- *)
\* the session of concept i was not cut short by the exit sentinel
Uncut(i) == i \notin trace.exited

\* C31: every concept session that is not cut short by the exit sentinel, a
\* disconnect or a failure completes exactly 2 turns, whatever the evaluator
\* returns: when it is over the concept has 2 records, the directive "Move On"
\* and turn_count 3; the policy is never called with turn_count > 2, and
\* turn_count never passes 3, so the loop's break is never taken.
C31_ExactlyTwoTurns ==
    pc # "closed" =>
        /\ \A i \in DOMAIN iterator_list :
               /\ (Ended(i) /\ Uncut(i)) =>
                      /\ Len(iterator_list[i].memory) = 2
                      /\ iterator_list[i].next_step = MoveOn
                      /\ iterator_list[i].turn_count = 3
               /\ iterator_list[i].turn_count <= LoopBreak
        /\ pc = "interim" => iterator_list[idx].turn_count <= 2

\* a run of two concepts, neither cut short: one answered with a factual error
\* on both turns, the other without error; both sessions took 2 turns
C31_Witness ==
    /\ pc = "feedback"
    /\ Len(iterator_list) = 2
    /\ trace.exited = {}
    /\ \A k \in 1..2 : iterator_list[1].memory[k].error_type = "factual"
    /\ \A k \in 1..2 : iterator_list[2].memory[k].error_type = "no error"
    /\ iterator_list[1].turn_count = 3 /\ iterator_list[2].turn_count = 3

(* ---------------------------------------------------------------------- *)
(* What question generation is given (checked under Spec)                   *)
(* ---------------------------------------------------------------------- *)
\* the directives that ask for another question
NonTerminalDirectives == Directives \ {MoveOn}

\* C32: the terminal directive is never used as an instruction: whenever a
\* question is about to be generated, and for every question generated, the
\* special instructions are "none" on the first turn of a concept and a
\* non-terminal directive returned by the policy on a later turn, never
\* "Move On".
C32_MoveOnNeverAnInstruction ==
    /\ pc = "ask" =>
           LET c == iterator_list[idx]
           IN  /\ c.next_step # MoveOn
               /\ c.turn_count = 1 => c.next_step = "none"
               /\ c.turn_count > 1 => c.next_step \in NonTerminalDirectives
    /\ pc \in {"await_answer", "transcribe", "evaluate", "interim"} =>
           /\ question.special_instructions # MoveOn
           /\ question.state_till_now = 0 => question.special_instructions = "none"
           /\ question.state_till_now > 0 =>
                  question.special_instructions \in NonTerminalDirectives

\* the second question of the second concept is out, asked with the directive
\* for mastery on the first turn, after the first concept ended on "Move On"
C32_Witness ==
    /\ pc = "await_answer"
    /\ idx = 2
    /\ iterator_list[1].next_step = MoveOn
    /\ question.state_till_now = 1
    /\ question.special_instructions = DeeperDirective

(* ---------------------------------------------------------------------- *)
(* The exit sentinel ends a concept, not the run (checked under SpecLive)   *)
(* ---------------------------------------------------------------------- *)
\* the step on which the transcription of the answer is "exit"
ExitStep == pc = "transcribe" /\ trace'.exited # trace.exited

\* after an exit the for loop goes on: to the first question of the next
\* concept, still untouched, or to the feedback after the last concept
ExitGoesOn ==
    ExitStep =>
        IF idx < Len(iterator_list)
        THEN /\ pc' = "ask" /\ idx' = idx + 1
             /\ iterator_list'[idx + 1] = NewIterator(iterator_list[idx + 1].concept_name)
        ELSE pc' = "feedback" /\ idx' = idx

\* concept i was exited before any of its answers was evaluated
ExitedOnFirstTurn(i) == i \in trace.exited /\ iterator_list[i].memory = <<>>

\* i is the last concept of the run with its name
LastOfName(i) ==
    \A j \in DOMAIN iterator_list :
        j > i => iterator_list[j].concept_name # iterator_list[i].concept_name

\* a run in which some concept was exited is in progress
RunWithExit == InRun /\ trace.exited # {}

\* C33 as stated: in the report of a run every concept exited on its first turn
\* has the unscored sentinel 0/0/0 under its name and an empty list of records.
C33_AsStated ==
    FeedbackSent =>
        \A i \in DOMAIN iterator_list :
            ExitedOnFirstTurn(i) =>
                /\ outbox.body.scores[iterator_list[i].concept_name] = ZeroScore
                /\ trace.viva_history[i] = <<>>

\* the report of a run: a concept exited on its first turn contributes an empty
\* list of records, and the score under its name is the sentinel 0/0/0 when no
\* later concept of the run has the same name
ExitedReported ==
    FeedbackSent =>
        \A i \in DOMAIN iterator_list :
            ExitedOnFirstTurn(i) =>
                /\ trace.viva_history[i] = <<>>
                /\ iterator_list[i].score = ZeroScore
                /\ LastOfName(i) =>
                       outbox.body.scores[iterator_list[i].concept_name] = ZeroScore

\* C33: the exit sentinel ends only the current concept: the step that reads
\* it goes to the first question of the next concept, or to the feedback after
\* the last one; a run with an exit still sends its final feedback; and a
\* concept exited on its first turn contributes an empty list of records and,
\* unless a later concept has the same name, has 0/0/0 under its name.
C33_ExitEndsConceptOnly ==
    /\ [][ExitGoesOn]_vars
    /\ []ExitedReported
    /\ (RunWithExit ~> (FeedbackSent /\ trace.exited # {}))

\* the report of a run over "A" and "B": "A" was exited on its first turn and
\* has 0/0/0, "B" took its 2 turns
C33_Witness ==
    /\ FeedbackSent
    /\ Len(iterator_list) = 2
    /\ iterator_list[2].concept_name = "B"
    /\ ExitedOnFirstTurn(1)
    /\ Len(iterator_list[2].memory) = 2
    /\ outbox.body.scores["A"] = ZeroScore

(* ---------------------------------------------------------------------- *)
(* What an exit turn leaves alone (checked under Spec)                      *)
(* ---------------------------------------------------------------------- *)
\* the step that reads the exit sentinel changes no Iterator object and sends
\* nothing
ExitChangesNothing ==
    ExitStep =>
        /\ iterator_list' = iterator_list
        /\ outbox' = outbox
        /\ trace'.n_interim = trace.n_interim
        /\ trace'.exited = trace.exited \cup {idx}

\* the exit turn has sent its question and taken its answer and nothing else:
\* until the sentinel is read the concept is as the previous turn left it
ExitTurnSoFar ==
    pc = "transcribe" =>
        /\ outbox = [type |-> "question", body |-> question]
        /\ Len(iterator_list[idx].memory) = iterator_list[idx].turn_count - 1
        /\ question.special_instructions = iterator_list[idx].next_step
        /\ question.state_till_now = Len(iterator_list[idx].memory)

\* C34: a turn that ends with the exit sentinel leaves the concept's state
\* untouched: score, memory, directive and turn_count are after the turn what
\* they were before it, no interim-result message is sent for that turn, and
\* the state of every other concept is unchanged.
C34_ExitTurnFrame == []ExitTurnSoFar /\ [][ExitChangesNothing]_vars

\* the first concept was exited on its second turn: it keeps its one record,
\* turn_count 2 and the directive of its first turn, the last message sent is
\* the unanswered question, and the second concept is about to be asked
C34_Witness ==
    /\ pc = "ask"
    /\ idx = 2
    /\ 1 \in trace.exited
    /\ Len(iterator_list[1].memory) = 1
    /\ iterator_list[1].turn_count = 2
    /\ iterator_list[1].next_step = FactualDirective
    /\ outbox.type = "question"
    /\ trace.n_interim = 1 /\ trace.n_question = 2

(* ---------------------------------------------------------------------- *)
(* Several runs on one connection (checked under Spec)                      *)
(* ---------------------------------------------------------------------- *)
\* the step on which a selection is answered with a found chapter
RunStarts == pc = "await_chapter" /\ pc' \in {"ask", "feedback"}

\* every Iterator object is as constructed
AllFresh(list) == \A i \in DOMAIN list : list[i] = NewIterator(list[i].concept_name)

\* a run starts with the connection open and with Iterator objects as
\* constructed, whatever the previous run left
StartsFresh ==
    RunStarts =>
        /\ close_code' = 0
        /\ AllFresh(iterator_list')
        /\ trace' = NoTrace
        /\ outbox' = outbox

\* after the feedback, and after the "Chapter not found" error, the handler is
\* back at receive_json with the connection open
BackToSelection ==
    /\ (pc = "feedback" /\ trace'.n_feedback = trace.n_feedback + 1) =>
           /\ pc' = "await_chapter" /\ close_code' = 0
           /\ outbox'.type = "feedback"
    /\ (pc = "await_chapter" /\ outbox.type # "error" /\ outbox'.type = "error") =>
           /\ pc' = "await_chapter" /\ close_code' = 0
           /\ iterator_list' = iterator_list

\* the handler waits for a selection only on an open connection, and while the
\* first question of a run is not yet out the run's concepts are as constructed
AwaitsOpen ==
    /\ pc = "await_chapter" => close_code = 0
    /\ (pc = "ask" /\ idx = 1 /\ trace.n_question = 0) => AllFresh(iterator_list)

\* C35: one connection serves any number of runs: after sending the final
\* feedback, and likewise after sending the "Chapter not found" error, the
\* handler is back at awaiting a selection with the connection open, and the
\* next run starts from fresh per-concept state (score 0/0/0, empty memory,
\* directive "none", turn_count 1) with nothing carried over.
C35_RunsOnOneConnection ==
    []AwaitsOpen /\ [][StartsFresh /\ BackToSelection]_vars

\* a run has started after the feedback of a previous one: the last message
\* sent still carries that run's scores, and the concepts are fresh
C35_Witness ==
    /\ pc = "ask" /\ idx = 1
    /\ close_code = 0
    /\ outbox.type = "feedback"
    /\ "A" \in DOMAIN outbox.body.scores
    /\ outbox.body.scores["A"].correctness = RatInt(10)
    /\ Len(iterator_list) = 2
    /\ AllFresh(iterator_list)
    /\ trace = NoTrace

InitLegacyPolicy ==
    /\ pc = "legacy_policy"
    /\ iterator_list = <<>>
    /\ idx = 0
    /\ question = NoRecord
    /\ answer = NoLocal
    /\ evaluation = NoRecord
    /\ outbox = [type |-> "status", body |-> [text |-> "connected"]]
    /\ close_code = 0
    /\ trace = NoTrace
    /\ policy_in \in PolicyInputs
    /\ policy_out = NoLocal
    /\ peer = NoPeer

LegacyPolicyCall ==
    /\ pc = "legacy_policy"
    /\ policy_out = NoLocal
    /\ policy_out' = legacy_viva_router(policy_in.error, policy_in.correctness,
                                        policy_in.depth, policy_in.clarity,
                                        policy_in.turn_count)
    /\ UNCHANGED <<ctl_vars, policy_in, peer>>

\* the older controller, and its policy called on its own
InitLegacyAll == InitLegacy \/ InitLegacyPolicy

NextLegacyAll == NextLegacy \/ LegacyPolicyCall

SpecLegacyAll == InitLegacyAll /\ [][NextLegacyAll]_vars

\* the older session of concept i is over
LegacyEnded(i) ==
    \/ pc \in {"legacy_feedback", "legacy_await_chapter"}
    \/ pc = "legacy_turn" /\ i < idx

\* what the older policy is given on the second turn of concept c is mastery:
\* "no error" and every aggregated field, the mean of the first two raw
\* scores, above 8
LegacyMasteryAtTurnTwo(c) ==
    /\ c.memory[2].error_type = "no error"
    /\ \A f \in Fields : RatGtInt(Rat(c.memory[1].score[f] + c.memory[2].score[f], 2), 8)

\* the older policy has no hard cap: "Move On" exactly for mastery at
\* turn_count >= 2, at any turn_count
LegacyPolicyUncapped ==
    (pc = "legacy_policy" /\ Called) =>
        (policy_out = "Move On"
            <=> /\ policy_in.error = "no error"
                /\ RatGtInt(policy_in.correctness, 8)
                /\ RatGtInt(policy_in.depth, 8)
                /\ RatGtInt(policy_in.clarity, 8)
                /\ policy_in.turn_count >= 2)

\* an older session that no exit cut short took 2 turns and ended on "Move On"
\* when mastery held at turn 2, and otherwise took 3 turns and ended on the
\* break, its directive not "Move On"
LegacySessionLength ==
    pc \in {"legacy_turn", "legacy_feedback", "legacy_await_chapter"} =>
        \A i \in DOMAIN iterator_list :
            LET c == iterator_list[i]
            IN  /\ Len(c.memory) <= 3
                /\ Len(c.memory) = c.turn_count - 1
                /\ (LegacyEnded(i) /\ i \notin trace.exited) =>
                       /\ Len(c.memory) \in {2, 3}
                       /\ IF LegacyMasteryAtTurnTwo(c)
                          THEN Len(c.memory) = 2 /\ c.next_step = "Move On"
                          ELSE /\ Len(c.memory) = 3
                               /\ c.turn_count = 4
                               /\ c.next_step # "Move On"

\* C37: the older copy (application.py) has no hard cap in its policy: its
\* viva_router returns "Move On" only for "no error" with all three aggregated
\* scores above 8 and turn_count >= 2 and a non-terminal directive otherwise,
\* at any turn_count; a concept session there completes 2 turns when mastery
\* holds at turn 2 and otherwise exactly 3 turns, ended by the loop's break on
\* turn_count > 3 with the directive still non-terminal.
C37_LegacySessionLength == LegacyPolicyUncapped /\ LegacySessionLength

\* an older session of three turns, every answer without error and scored 10,
\* 6 and 10: no mastery at turn 2 (mean 8), the third call gives a directive and
\* the break ends the session
C37_Witness ==
    /\ pc = "legacy_feedback"
    /\ Len(iterator_list) = 1
    /\ trace.exited = {}
    /\ Len(iterator_list[1].memory) = 3
    /\ iterator_list[1].memory[1].score.correctness = 10
    /\ iterator_list[1].memory[2].score.correctness = 6
    /\ iterator_list[1].memory[3].score.correctness = 10
    /\ \A k \in 1..3 : iterator_list[1].memory[k].error_type = "no error"
    /\ iterator_list[1].turn_count = 4
    /\ iterator_list[1].next_step = "Test this concept using a different question/approach"

====
